---- MODULE Spec2Model ----
(***************************************************************************)
(* Model of the meeting-insight-generator vector store                     *)
(* (backend/src/services/vector_store_service.py) and of the service       *)
(* instances the API routes build on one storage directory.                *)
(*                                                                         *)
(* A VectorStoreService holds a FAISS index (None or a flat L2 index of    *)
(* dimension d with its vectors) and metadata_list, and persists both to   *)
(* two files, faiss.index and metadata.json.  The embedding provider and   *)
(* the file system can fail; every handler is one action, the failure      *)
(* points it can hit are drawn with \E.                                    *)
(***************************************************************************)
EXTENDS Integers, Sequences, FiniteSets, TLC

VARIABLES
    index,          \* [Instances -> index object]  self.index
    metadata_list,  \* [Instances -> Seq(VectorMetadata)]  self.metadata_list
    disk_index,     \* the file faiss.index of the shared directory
    disk_meta,      \* the file metadata.json of the shared directory
    last,           \* the last handler that ran: its arguments and its outcome
    faults,         \* the number of faults (an encode call that raised, a save
                    \* that did not complete) so far
    deleted,        \* history: [Instances -> the meeting ids for which
                    \* delete_meeting_vectors returned True on that instance and
                    \* no add_meeting_embeddings was called since]
    model_dim,      \* [Instances -> output dimension of the sentence-transformer
                    \* named by the instance's embedding_model_name]
    task,           \* the add_meeting_embeddings call the event loop's thread is
                    \* inside of, statement by statement (SpecLoop)
    waiting,        \* the /search requests accepted and not yet run (SpecLoop)
    response,       \* the last response of POST /search
    chunker,        \* a call of _chunk_text: the text, the instance's
                    \* chunk_size and chunk_overlap, and what it returned
                    \* (SpecChunk)
    pipeline_store, \* the PipelineStore of upload.py: its _is_processing flag
    uploads,        \* [UploadIds -> the POST /upload request: where it is in
                    \* upload_meeting_file and in its background task]
                    \* (SpecUpload)
    cache           \* a SimpleCache: its _cache dict in insertion order, its
                    \* max_size, whether it has a cache_dir and the files in
                    \* it, and what the last get returned (SpecCache)

vars == <<index, metadata_list, disk_index, disk_meta, last, faults, deleted,
          model_dim, task, waiting, response, chunker, pipeline_store,
          uploads, cache>>

----------------------------------------------------------------------------
(* Bounds of the model *)

\* add_meeting_embeddings is not started when metadata_list already holds
\* this many records
MaxRecords == 3

\* search is called with top_k in 1..MaxTopK
MaxTopK == 2

\* the embedding provider and the file system fail at most this often in a run
MaxFaults == 1

\* at most this many /search requests arrive in a run of the event loop
MaxWaiting == 2

\* POST /search is called with page in 1..MaxPage and page_size in
\* 1..MaxPageSize
MaxPage == 3
MaxPageSize == 2

\* _chunk_text is called with texts of at most MaxTextLen characters on
\* instances built with chunk_size in 1..MaxChunkSize and chunk_overlap in
\* 0..MaxChunkSize
MaxTextLen == 4
MaxChunkSize == 3

\* at most this many POST /upload requests are open at a time
MaxUploads == 3

\* a SimpleCache is built with max_size in 1..MaxCacheSize
MaxCacheSize == 2

----------------------------------------------------------------------------
(* Values *)

\* Python's None for the optional string fields and arguments
None == "None"

\* the module-level service objects: upload.py:47 and search.py:30 each build
\* a VectorStoreService on storage/vectors
Instances == {"upload", "search"}

\* the instance add_meeting_embeddings is called on (upload.py:329); the
\* instance of search.py only serves /search
Writers == {"upload"}

Meetings == {"m1", "m2"}

\* texts are sequences of characters
TextAB == <<"a", "b">>
TextBC == <<"b", "c">>
TextABC == <<"a", "b", "c">>
TextC == <<"c">>

\* constructor arguments chunk_size and chunk_overlap of the instances
chunk_size == 2
chunk_overlap == 1

\* output dimension of the configured sentence-transformer model
embedding_dim == 2

\* FAISS pads a result list it cannot fill with label -1 and this distance
\* (FLT_MAX in the library; any value above every real distance of the model)
FLT_MAX == 1000

RECURSIVE SumSeq(_)
SumSeq(s) == IF s = <<>> THEN 0 ELSE Head(s) + SumSeq(Tail(s))

CharCode(c) == CASE c = "a" -> 1 [] c = "b" -> 2 [] c = "c" -> 4 [] OTHER -> 0

\* embedding_model.encode(text): a fixed text -> float[dim] map
Embed(text, dim) ==
    [j \in 1..dim |->
        IF j = 1 THEN SumSeq([k \in 1..Len(text) |-> CharCode(text[k])])
                 ELSE Len(text)]

\* VectorMetadata
VectorMetadata(meeting_id, segment_type, text, segment_index, project_id) ==
    [text |-> text, meeting_id |-> meeting_id, segment_type |-> segment_type,
     segment_index |-> segment_index, project_id |-> project_id]

\* self.index = None
NoIndex == [present |-> FALSE, d |-> 0, vecs |-> <<>>]

\* faiss.IndexFlatL2(d)
IndexFlatL2(d) == [present |-> TRUE, d |-> d, vecs |-> <<>>]

\* index.ntotal, 0 when the index is None
ntotal(ix) == Len(ix.vecs)

\* a file of the storage directory: absent, readable, or unreadable (a write
\* that stopped part-way)
AbsentIndexFile == [d |-> 0, vecs |-> <<>>, state |-> "absent"]
CorruptIndexFile == [d |-> 0, vecs |-> <<>>, state |-> "corrupt"]
AbsentMetaFile == [state |-> "absent", records |-> <<>>]
CorruptMetaFile == [state |-> "corrupt", records |-> <<>>]

\* faiss.write_index(index, path): what a complete write leaves in the file
write_index(ix) == [d |-> ix.d, vecs |-> ix.vecs, state |-> "ok"]

\* json.dump([asdict(md) ...]): what a complete write leaves in the file.
\* Every field of the model's records is a string, a number or None, which
\* asdict/json.dump/json.load/VectorMetadata(**md) give back unchanged.
dump_metadata(mds) ==
    [state |-> "ok",
     records |-> [k \in 1..Len(mds) |->
        [text |-> mds[k].text, meeting_id |-> mds[k].meeting_id,
         segment_type |-> mds[k].segment_type, segment_index |-> mds[k].segment_index,
         project_id |-> mds[k].project_id]]]

\* faiss.read_index(path) of a readable file
read_index(f) == [present |-> TRUE, d |-> f.d, vecs |-> f.vecs]

\* [VectorMetadata(**md) for md in json.load(f)]
load_metadata(f) ==
    [k \in 1..Len(f.records) |->
        VectorMetadata(f.records[k].meeting_id, f.records[k].segment_type,
                       f.records[k].text, f.records[k].segment_index,
                       f.records[k].project_id)]

\* the in-memory pair of one instance
Mem(ix, mds) == [index |-> ix, metadata_list |-> mds]

----------------------------------------------------------------------------
(* _load_index *)

_load_index(fi, fm) ==
    IF fi.state # "absent" /\ fm.state # "absent"
    THEN IF fi.state = "ok" /\ fm.state = "ok"
         THEN Mem(read_index(fi), load_metadata(fm))
         ELSE Mem(NoIndex, <<>>)          \* except: index = None, metadata = []
    ELSE Mem(NoIndex, <<>>)

(* _save_index: the two writes, in place, any exception swallowed.  outcome   *)
(* says where the save stops.                                               *)
SaveOutcomes ==
    {"ok", "index_open_fails", "index_write_partial",
     "meta_open_fails", "meta_write_partial"}

_save_index(mem, fi, fm, outcome) ==
    IF ~mem.index.present \/ Len(mem.metadata_list) = 0
    THEN [fi |-> fi, fm |-> fm]
    ELSE CASE outcome = "ok" ->
                [fi |-> write_index(mem.index), fm |-> dump_metadata(mem.metadata_list)]
           [] outcome = "index_open_fails" ->
                [fi |-> fi, fm |-> fm]
           [] outcome = "index_write_partial" ->
                [fi |-> CorruptIndexFile, fm |-> fm]
           [] outcome = "meta_open_fails" ->
                [fi |-> write_index(mem.index), fm |-> fm]
           [] OTHER ->
                [fi |-> write_index(mem.index), fm |-> CorruptMetaFile]

----------------------------------------------------------------------------
(* _chunk_text *)

\* mutant of Slice: the end index taken as inclusive
Slice_Inclusive(text, start, end) ==
    LET e == IF end + 1 > Len(text) THEN Len(text) ELSE end + 1
    IN  IF start >= e THEN <<>> ELSE SubSeq(text, start + 1, e)

Slice(text, start, end) ==
    \* text[start:end] with 0-based start and exclusive end, clamped as Python does
    LET e == IF end > Len(text) THEN Len(text) ELSE end
    IN  IF start >= e THEN <<>> ELSE SubSeq(text, start + 1, e)

\* mutant of ChunkLoop: start moves on by chunk_size, the overlap forgotten
RECURSIVE ChunkLoop_NoOverlap(_, _, _, _)
ChunkLoop_NoOverlap(text, size, overlap, start) ==
    IF start < Len(text)
    THEN LET end == start + size
         IN  IF end >= Len(text)
             THEN <<Slice(text, start, end)>>
             ELSE <<Slice(text, start, end)>>
                  \o ChunkLoop_NoOverlap(text, size, overlap, start + size)
    ELSE <<>>

\* the while loop from this start on: the chunks it appends
RECURSIVE ChunkLoop(_, _, _, _)
ChunkLoop(text, size, overlap, start) ==
    IF start < Len(text)
    THEN LET end == start + size
         IN  IF end >= Len(text)
             THEN <<Slice(text, start, end)>>
             ELSE <<Slice(text, start, end)>>
                  \o ChunkLoop(text, size, overlap, start + size - overlap)
    ELSE <<>>

\* mutant of _chunk_text: without the first test
_chunk_text_LoopOnly(text, size, overlap) ==
    ChunkLoop(text, size, overlap, 0)

_chunk_text(text, size, overlap) ==
    IF Len(text) <= size THEN <<text>> ELSE ChunkLoop(text, size, overlap, 0)

\* the while loop of _chunk_text is entered and start never reaches
\* len(text): every pass appends a chunk, finds end < len(text) and adds
\* chunk_size - chunk_overlap <= 0 to start
LoopsForever(text, size, overlap) == Len(text) > size /\ overlap >= size

----------------------------------------------------------------------------
(* _ensure_index and _add_vector *)

_ensure_index(mem, dim, fi, fm) ==
    IF mem.index.present
    THEN mem
    ELSE LET loaded ==
                 IF fi.state # "absent" /\ fm.state # "absent"
                 THEN IF fi.state = "ok" /\ fm.state = "ok" /\ fi.d = dim
                      THEN Mem(read_index(fi), load_metadata(fm))
                      ELSE Mem(NoIndex, <<>>)     \* except: index = None, metadata = []
                 ELSE mem
         IN  IF loaded.index.present
             THEN loaded
             ELSE Mem(IndexFlatL2(dim), loaded.metadata_list)

\* the result of a step of a handler: the memory it leaves and whether it raised
Step(mem, raised) == [mem |-> mem, raised |-> raised]

\* _add_vector(metadata); embedOk is whether embedding_model.encode returns
_add_vector(mem, md, embedOk, dim, fi, fm) ==
    IF ~embedOk
    THEN Step(mem, TRUE)
    ELSE LET m1 == _ensure_index(mem, dim, fi, fm)
         IN  IF m1.index.d # dim
             THEN Step(m1, TRUE)          \* index.add asserts the dimension
             ELSE Step(Mem([m1.index EXCEPT !.vecs = Append(@, Embed(md.text, dim))],
                           Append(m1.metadata_list, md)),
                       FALSE)

----------------------------------------------------------------------------
(* add_meeting_embeddings *)

\* segment_index = None
NoSegmentIndex == -1

\* The content of one call.  transcript is transcript["text"] (<<>> when the
\* transcript is missing or empty), segments is len(transcript["segments"]);
\* topics, decisions and action_items are the combined texts of their items
\* (never empty: the f-strings always hold ". "); summary is the summary text
\* (<<>> when missing).  timestamp and additional_data are copied into the
\* record and read by no operation; the model leaves them out.
Call(meeting_id, transcript, segments, topics, decisions, action_items, summary, project_id) ==
    [meeting_id |-> meeting_id, project_id |-> project_id, transcript |-> transcript,
     segments |-> segments, topics |-> topics, decisions |-> decisions,
     action_items |-> action_items, summary |-> summary]

Items(call, kind, texts) ==
    [k \in 1..Len(texts) |->
        VectorMetadata(call.meeting_id, kind, texts[k], k - 1, call.project_id)]

\* the records of a call, in the order add_meeting_embeddings builds them
RecordsOf(call) ==
    LET chunks == IF call.transcript = <<>> THEN <<>>
                  ELSE _chunk_text(call.transcript, chunk_size, chunk_overlap)
    IN  [k \in 1..Len(chunks) |->
            VectorMetadata(call.meeting_id, "transcript", chunks[k],
                           IF k - 1 < call.segments THEN k - 1 ELSE NoSegmentIndex,
                           call.project_id)]
        \o Items(call, "topic", call.topics)
        \o Items(call, "decision", call.decisions)
        \o Items(call, "action_item", call.action_items)
        \o (IF call.summary = <<>> THEN <<>>
            ELSE <<VectorMetadata(call.meeting_id, "summary", call.summary,
                                  NoSegmentIndex, call.project_id)>>)

\* the _add_vector calls of one add_meeting_embeddings, from record k on;
\* failAt is the call at which embedding_model.encode raises (0: none does)
RECURSIVE AddLoop(_, _, _, _, _, _, _)
AddLoop(mem, recs, k, failAt, dim, fi, fm) ==
    IF k > Len(recs)
    THEN Step(mem, FALSE)
    ELSE LET s == _add_vector(mem, recs[k], k # failAt, dim, fi, fm)
         IN  IF s.raised THEN s
             ELSE AddLoop(s.mem, recs, k + 1, failAt, dim, fi, fm)

----------------------------------------------------------------------------
(* delete_meeting_vectors *)

\* mutant of KeepOthers: the filter ends at the first record of the meeting
RECURSIVE KeepOthers_FirstOnly(_, _)
KeepOthers_FirstOnly(mds, meeting_id) ==
    IF mds = <<>> THEN <<>>
    ELSE IF Head(mds).meeting_id # meeting_id
         THEN <<Head(mds)>> \o KeepOthers_FirstOnly(Tail(mds), meeting_id)
         ELSE Tail(mds)

\* [md for md in self.metadata_list if md.meeting_id != meeting_id]
RECURSIVE KeepOthers(_, _)
KeepOthers(mds, meeting_id) ==
    IF mds = <<>> THEN <<>>
    ELSE IF Head(mds).meeting_id # meeting_id
         THEN <<Head(mds)>> \o KeepOthers(Tail(mds), meeting_id)
         ELSE KeepOthers(Tail(mds), meeting_id)

\* the rebuild: encode the first record for the dimension (call 1), then
\* encode and add every remaining record (calls 2..n+1) to a new index
Rebuild(oldIndex, mds, failAt, dim) ==
    IF failAt = 1
    THEN Step(Mem(oldIndex, mds), TRUE)
    ELSE IF failAt > 1 /\ failAt <= Len(mds) + 1
         THEN Step(Mem([IndexFlatL2(dim) EXCEPT !.vecs =
                            [k \in 1..(failAt - 2) |-> Embed(mds[k].text, dim)]],
                       mds), TRUE)
         ELSE Step(Mem([IndexFlatL2(dim) EXCEPT !.vecs =
                            [k \in 1..Len(mds) |-> Embed(mds[k].text, dim)]],
                       mds), FALSE)

\* the outcome of delete_meeting_vectors before its save:
\* mem, raised, ret (the value returned), saves (whether _save_index is
\* called), embed_calls (the calls of embedding_model.encode it made)
delete_meeting_vectors(mem, meeting_id, failAt, dim) ==
    LET kept == KeepOthers(mem.metadata_list, meeting_id)
    IN  IF ~mem.index.present
        THEN [mem |-> mem, raised |-> FALSE, ret |-> FALSE, saves |-> FALSE,
              embed_calls |-> 0]
        ELSE IF Len(kept) = Len(mem.metadata_list)
        THEN [mem |-> Mem(mem.index, kept), raised |-> FALSE, ret |-> FALSE,
              saves |-> FALSE, embed_calls |-> 0]
        ELSE IF Len(kept) = 0
        THEN [mem |-> Mem(NoIndex, kept), raised |-> FALSE, ret |-> TRUE,
              saves |-> TRUE, embed_calls |-> 0]
        ELSE LET s == Rebuild(mem.index, kept, failAt, dim)
             IN  [mem |-> s.mem, raised |-> s.raised, ret |-> ~s.raised,
                  saves |-> ~s.raised,
                  embed_calls |-> IF s.raised THEN failAt ELSE Len(kept) + 1]

----------------------------------------------------------------------------
(* get_stats *)

\* get_stats()["total_vectors"]
total_vectors(mem) ==
    IF ~mem.index.present THEN 0 ELSE Len(mem.metadata_list)

----------------------------------------------------------------------------
(* search *)

\* an optional list argument: None, or a list (possibly empty)
NoFilter == [given |-> FALSE, list |-> <<>>]
FilterOn(list) == [given |-> TRUE, list |-> list]

Elems(list) == {list[k] : k \in 1..Len(list)}

\* a score as the fraction num/den, den > 0
Frac(num, den) == [num |-> num, den |-> den]
FracLess(a, b) == a.num * b.den < b.num * a.den

\* squared Euclidean distance of two vectors of one dimension
L2(u, v) == SumSeq([j \in 1..Len(u) |-> (u[j] - v[j]) * (u[j] - v[j])])

\* the k nearest stored vectors, nearest first, as <<label, distance>> with
\* 0-based labels; equal distances in insertion order; fewer than k vectors in
\* the index: the rest is padded with label -1 and distance FLT_MAX
RECURSIVE NearestFirst(_, _, _)
NearestFirst(ix, q, left) ==
    IF left = {} THEN <<>>
    ELSE LET best == CHOOSE a \in left : \A b \in left :
                        \/ L2(ix.vecs[a], q) < L2(ix.vecs[b], q)
                        \/ (L2(ix.vecs[a], q) = L2(ix.vecs[b], q) /\ a <= b)
         IN  <<<<best - 1, L2(ix.vecs[best], q)>>>> \o NearestFirst(ix, q, left \ {best})

index_search(ix, q, k) ==
    LET ranked == NearestFirst(ix, q, 1..ntotal(ix))
    IN  [p \in 1..k |-> IF p <= Len(ranked) THEN ranked[p] ELSE <<-1, FLT_MAX>>]

\* list[idx] of Python, idx 0-based, a negative idx counted from the end
PyGet(list, idx) == IF idx < 0 THEN list[Len(list) + idx + 1] ELSE list[idx + 1]

MaxOf(S) == CHOOSE x \in S : \A y \in S : y <= x

\* mutant of FilteredOut: a record without project_id passes the project filter
FilteredOut_LegacyPasses(md, segment_types, meeting_ids, project_id) ==
    \/ (segment_types.given /\ segment_types.list # <<>>
        /\ md.segment_type \notin Elems(segment_types.list))
    \/ (meeting_ids.given /\ meeting_ids.list # <<>>
        /\ md.meeting_id \notin Elems(meeting_ids.list))
    \/ (project_id # None /\ md.project_id # None /\ md.project_id # project_id)

\* the filters of the loop body: TRUE when the record is skipped.  str() of
\* the two project ids is the id itself: both are strings.
FilteredOut(md, segment_types, meeting_ids, project_id) ==
    \/ (segment_types.given /\ segment_types.list # <<>>
        /\ md.segment_type \notin Elems(segment_types.list))
    \/ (meeting_ids.given /\ meeting_ids.list # <<>>
        /\ md.meeting_id \notin Elems(meeting_ids.list))
    \/ (project_id # None /\ md.project_id # project_id)

\* mutant of similarity: the normalized distance itself, not its complement
similarity_NoComplement(distance, max_distance) ==
    IF max_distance > 0 THEN Frac(distance, max_distance)
    ELSE Frac(1, 1)

\* 1.0 - distance / max_distance, 1.0 when max_distance is 0
similarity(distance, max_distance) ==
    IF max_distance > 0 THEN Frac(max_distance - distance, max_distance)
    ELSE Frac(1, 1)

\* mutant of EnoughResults: > for >=
EnoughResults_OffByOne(results, top_k) == Len(results) > top_k

\* the loop stops once this holds of the results collected
EnoughResults(results, top_k) == Len(results) >= top_k

\* the loop over the candidates from position p on
RECURSIVE SearchLoop(_, _, _, _, _)
SearchLoop(mds, cands, p, results, a) ==
    IF p > Len(cands) THEN results
    ELSE LET idx == cands[p][1]
             distance == cands[p][2]
         IN  IF idx >= Len(mds)
             THEN SearchLoop(mds, cands, p + 1, results, a)
             ELSE LET md == PyGet(mds, idx)
                      max_distance == MaxOf({cands[c][2] : c \in 1..Len(cands)})
                      score == similarity(distance, max_distance)
                  IN  IF FilteredOut(md, a.segment_types, a.meeting_ids, a.project_id)
                      THEN SearchLoop(mds, cands, p + 1, results, a)
                      ELSE IF FracLess(score, a.min_score)
                      THEN SearchLoop(mds, cands, p + 1, results, a)
                      ELSE LET r == [text |-> md.text, meeting_id |-> md.meeting_id,
                                     segment_type |-> md.segment_type,
                                     segment_index |-> md.segment_index,
                                     distance |-> distance,
                                     similarity_score |-> score,
                                     \* not a field of the result: the position of
                                     \* the record the result was built from
                                     record |-> IF idx < 0 THEN Len(mds) + idx + 1
                                                ELSE idx + 1]
                               more == Append(results, r)
                           IN  IF EnoughResults(more, a.top_k) THEN more
                               ELSE SearchLoop(mds, cands, p + 1, more, a)

\* results.sort(key=similarity_score, reverse=True): stable, highest first
RECURSIVE SortBySimilarity(_)
SortBySimilarity(rs) ==
    IF rs = <<>> THEN <<>>
    ELSE LET best == CHOOSE a \in 1..Len(rs) : \A b \in 1..Len(rs) :
                        \/ FracLess(rs[b].similarity_score, rs[a].similarity_score)
                        \/ (~FracLess(rs[a].similarity_score, rs[b].similarity_score)
                            /\ a <= b)
         IN  <<rs[best]>>
             \o SortBySimilarity([k \in 1..(Len(rs) - 1) |->
                                    IF k < best THEN rs[k] ELSE rs[k + 1]])

\* mutant of NoVectors: "is not None and" for "is None or"
NoVectors_WrongTest(mem) == mem.index.present /\ Len(mem.metadata_list) = 0

\* the test before the query is embedded: nothing to search
NoVectors(mem) == ~mem.index.present \/ Len(mem.metadata_list) = 0

Min(x, y) == IF x <= y THEN x ELSE y

\* mutant of search: the files are read again at every call
search_AlwaysReloads(mem, a, embedOk, dim, fi, fm) ==
    LET m1 == _load_index(fi, fm)
    IN  IF NoVectors(m1)
        THEN [mem |-> m1, raised |-> FALSE, embed_calls |-> 0, results |-> <<>>]
        ELSE IF ~embedOk
        THEN [mem |-> m1, raised |-> TRUE, embed_calls |-> 1, results |-> <<>>]
        ELSE IF ~m1.index.present \/ m1.index.d # dim
        THEN \* index.search on None, or on an index of another dimension, raises
             [mem |-> m1, raised |-> TRUE, embed_calls |-> 1, results |-> <<>>]
        ELSE LET k == Min(a.top_k * 2, Len(m1.metadata_list))
                 cands == index_search(m1.index, Embed(a.query, dim), k)
             IN  [mem |-> m1, raised |-> FALSE,
                  embed_calls |-> 1,
                  results |-> SortBySimilarity(SearchLoop(m1.metadata_list, cands, 1, <<>>, a))]

\* search(query, top_k, segment_types, meeting_ids, project_id, min_score) on
\* the memory mem of an instance; embedOk is whether encode(query) returns.
\* Gives the memory left, whether it raised, the list returned and the number
\* of calls of the embedding provider.
search(mem, a, embedOk, dim, fi, fm) ==
    LET m1 == IF ~mem.index.present THEN _load_index(fi, fm) ELSE mem
    IN  IF NoVectors(m1)
        THEN [mem |-> m1, raised |-> FALSE, embed_calls |-> 0, results |-> <<>>]
        ELSE IF ~embedOk
        THEN [mem |-> m1, raised |-> TRUE, embed_calls |-> 1, results |-> <<>>]
        ELSE IF ~m1.index.present \/ m1.index.d # dim
        THEN \* index.search on None, or on an index of another dimension, raises
             [mem |-> m1, raised |-> TRUE, embed_calls |-> 1, results |-> <<>>]
        ELSE LET k == Min(a.top_k * 2, Len(m1.metadata_list))
                 cands == index_search(m1.index, Embed(a.query, dim), k)
             IN  [mem |-> m1, raised |-> FALSE,
                  embed_calls |-> 1,
                  results |-> SortBySimilarity(SearchLoop(m1.metadata_list, cands, 1, <<>>, a))]

----------------------------------------------------------------------------
(* POST /search: search_meetings *)

\* the length search_meetings cuts the query to
QueryLimit == 500

\* str.strip(): the text without its leading and trailing blanks
RECURSIVE Strip(_)
Strip(text) ==
    IF text = <<>> THEN <<>>
    ELSE IF Head(text) = " " THEN Strip(Tail(text))
    ELSE IF text[Len(text)] = " " THEN Strip(SubSeq(text, 1, Len(text) - 1))
    ELSE text

\* a SearchRequest
SearchRequest(query, top_k, segment_types, meeting_ids, project_id, min_score, page, page_size) ==
    [project_id |-> project_id, segment_types |-> segment_types, meeting_ids |-> meeting_ids,
     top_k |-> top_k, min_score |-> min_score,
     query |-> query, page |-> page, page_size |-> page_size]

\* a SearchResponse (status 200) or the HTTPException raised (400, 500)
SearchResponse(status, results, total_results, request, total_pages) ==
    [results |-> results, page |-> request.page, page_size |-> request.page_size,
     status |-> status, total_results |-> total_results,
     request |-> request, total_pages |-> total_pages]

\* the top_k the engine is called with
search_top_k(request) ==
    IF request.page_size # 0 THEN request.top_k * request.page_size
    ELSE request.top_k * 10

\* the arguments of the call vs.search(...) for a request with this query
EngineArgs(request, query) ==
    [project_id |-> None, segment_types |-> request.segment_types,
     meeting_ids |-> request.meeting_ids,
     top_k |-> search_top_k(request), min_score |-> request.min_score,
     query |-> query]

\* mutant of start_idx: the page number taken as 0-based
start_idx_ZeroBased(request) == request.page * request.page_size

\* the index of the first result of the page
start_idx(request) == (request.page - 1) * request.page_size

\* the pagination of raw_results
Paginate(request, raw_results) ==
    SearchResponse(200,
                   Slice(raw_results, start_idx(request),
                         start_idx(request) + request.page_size),
                   Len(raw_results), request,
                   IF request.page_size > 0
                   THEN (Len(raw_results) + request.page_size - 1)
                            \div request.page_size
                   ELSE 1)

\* search_meetings(request) with the memory mem of the instance of search.py:
\* gives whether vs.search was called, the call's arguments and outcome
\* (engine), the memory left and the response
search_meetings(mem, request, embedOk, dim, fi, fm) ==
    LET query == Slice(Strip(request.query), 0, QueryLimit)
        a == EngineArgs(request, query)
        s == search(mem, a, embedOk, dim, fi, fm)
    IN  IF query = <<>>
        THEN [response |-> SearchResponse(400, <<>>, 0, request, 0), mem |-> mem, called |-> FALSE, args |-> a,
              engine |-> s]
        ELSE IF s.raised
        THEN [response |-> SearchResponse(500, <<>>, 0, request, 0), mem |-> s.mem, called |-> TRUE, args |-> a,
              engine |-> s]
        ELSE [response |-> Paginate(request, s.results), mem |-> s.mem, called |-> TRUE, args |-> a,
              engine |-> s]

----------------------------------------------------------------------------
(* The handlers as actions *)

NoArgs ==
    [project_id |-> None, segment_types |-> NoFilter, meeting_ids |-> NoFilter,
     top_k |-> 0, min_score |-> Frac(0, 1), query |-> <<>>]

\* what `last` records of a handler:
\*   op, inst, meeting   the handler, the instance, the meeting_id argument
\*   raised              it ended with an exception
\*   count, flag         the int / bool it returned; for search the flag is
\*                       whether it found the index None and called _load_index
\*   results             the list search returned
\*   embed_calls         calls of embedding_model.encode made by search or by
\*                       delete_meeting_vectors
\*   args                the arguments of search
\*   save                "none": _save_index not called; "skipped": called and
\*                       returned at its first test; else where the writes ended
Last(op, inst, meeting, raised, count, flag, results, embed_calls, args, save) ==
    [raised |-> raised, embed_calls |-> embed_calls, results |-> results, args |-> args,
     op |-> op, inst |-> inst, meeting |-> meeting,
     count |-> count, flag |-> flag, save |-> save]

MemOf(i) == Mem(index[i], metadata_list[i])

\* no add_meeting_embeddings call is being executed
NoTask ==
    [k |-> 0, recs |-> <<>>, op |-> "idle", inst |-> "upload", meeting |-> None,
     pc |-> "none"]

\* no /search request was answered yet
NoResponse ==
    [results |-> <<>>, page |-> 0, page_size |-> 0, status |-> 0,
     total_results |-> 0, request |-> NoArgs, total_pages |-> 0]

\* _chunk_text was not called
NoChunking ==
    [text |-> <<>>, state |-> "ready", size |-> 0, overlap |-> 0, chunks |-> <<>>]

\* PipelineStore(): nothing is being processed
NoProcessing == [_is_processing |-> FALSE]

\* the POST /upload requests of a run
UploadIds == 1..MaxUploads

\* a POST /upload request that has not arrived
NoUpload == [pc |-> "none", with_db |-> FALSE]

\* the keys and values given to a SimpleCache
CacheKeys == {"k1", "k2", "k3"}
CacheValues == {"v1", "v2"}

\* SimpleCache(max_size=1): empty, without cache_dir
NoCache ==
    [_cache |-> <<>>, max_size |-> 1, cache_dir |-> FALSE,
     files |-> [k \in CacheKeys |-> None], returned |-> None]

SaveOf(mem, outcome) ==
    IF ~mem.index.present \/ Len(mem.metadata_list) = 0 THEN "skipped" ELSE outcome

Init ==
    /\ index = [i \in Instances |-> NoIndex]
    /\ metadata_list = [i \in Instances |-> <<>>]
    /\ disk_index = AbsentIndexFile
    /\ disk_meta = AbsentMetaFile
    /\ last = Last("init", "upload", None, FALSE, 0, FALSE, <<>>, 0, NoArgs, "none")
    /\ faults = 0
    /\ deleted = [i \in Instances |-> {}]
    /\ model_dim = [i \in Instances |-> embedding_dim]
    /\ task = NoTask
    /\ waiting = <<>>
    /\ response = NoResponse
    /\ chunker = NoChunking
    /\ pipeline_store = NoProcessing
    /\ uploads = [u \in UploadIds |-> NoUpload]
    /\ cache = NoCache

\* VectorStoreService(...) built again on the directory (a process restart)
Construct(i) ==
    \E m \in {_load_index(disk_index, disk_meta)} :
        /\ index' = [index EXCEPT ![i] = m.index]
        /\ metadata_list' = [metadata_list EXCEPT ![i] = m.metadata_list]
        /\ last' = Last("construct", i, None, FALSE, 0, FALSE, <<>>, 0, NoArgs, "none")
        /\ deleted' = [deleted EXCEPT ![i] = {}]
        /\ UNCHANGED <<disk_index, disk_meta, faults>>
        /\ UNCHANGED <<model_dim, task, waiting, response, chunker, pipeline_store, uploads, cache>>

\* the handler's save: the files it leaves and what `last` says of it
Saved(saves, mem, outcome) ==
    IF saves
    THEN [save |-> SaveOf(mem, outcome),
          disk |-> _save_index(mem, disk_index, disk_meta, outcome)]
    ELSE [save |-> "none", disk |-> [fi |-> disk_index, fm |-> disk_meta]]

Fault(b) == IF b THEN 1 ELSE 0

\* add_meeting_embeddings(**call) on instance i; failAt is the _add_vector call
\* whose encode raises (0: none), outcome where the save ends
AddMeetingEmbeddings(i, call, failAt, outcome) ==
    \E recs \in {RecordsOf(call)} :
        /\ failAt <= Len(recs)
        /\ Len(metadata_list[i]) + Len(recs) <= MaxRecords
        /\ ~index[i].present => Len(disk_meta.records) + Len(recs) <= MaxRecords
        /\ \E s \in {AddLoop(MemOf(i), recs, 1, failAt, model_dim[i],
                             disk_index, disk_meta)} :
           \E w \in {Saved(~s.raised /\ Len(recs) > 0, s.mem, outcome)} :
              /\ w.save = outcome \/ outcome = "ok"
              /\ faults' = faults + Fault(failAt > 0) + Fault(outcome # "ok")
              /\ faults' <= MaxFaults
              /\ index' = [index EXCEPT ![i] = s.mem.index]
              /\ metadata_list' = [metadata_list EXCEPT ![i] = s.mem.metadata_list]
              /\ disk_index' = w.disk.fi
              /\ disk_meta' = w.disk.fm
              /\ last' = Last("add", i, call.meeting_id, s.raised,
                              IF s.raised THEN 0 ELSE Len(recs), FALSE, <<>>, 0,
                              NoArgs, w.save)
              /\ deleted' = [j \in Instances |-> deleted[j] \ {call.meeting_id}]
              /\ UNCHANGED <<model_dim, task, waiting, response, chunker, pipeline_store, uploads, cache>>

\* delete_meeting_vectors(meeting_id) on instance i; failAt is the encode call
\* of the rebuild that raises (0: none), outcome where the save ends
DeleteMeetingVectors(i, meeting_id, failAt, outcome) ==
    \E s \in {delete_meeting_vectors(MemOf(i), meeting_id, failAt, model_dim[i])} :
    \E w \in {Saved(s.saves, s.mem, outcome)} :
        /\ failAt > 0 => s.raised
        /\ failAt <= Len(s.mem.metadata_list) + 1
        /\ w.save = outcome \/ outcome = "ok"
        /\ faults' = faults + Fault(failAt > 0) + Fault(outcome # "ok")
        /\ faults' <= MaxFaults
        /\ index' = [index EXCEPT ![i] = s.mem.index]
        /\ metadata_list' = [metadata_list EXCEPT ![i] = s.mem.metadata_list]
        /\ disk_index' = w.disk.fi
        /\ disk_meta' = w.disk.fm
        /\ last' = Last("delete", i, meeting_id, s.raised, 0, s.ret, <<>>,
                        s.embed_calls, NoArgs, w.save)
        /\ deleted' = IF s.ret THEN [deleted EXCEPT ![i] = @ \cup {meeting_id}]
                      ELSE deleted
        /\ UNCHANGED <<model_dim, task, waiting, response, chunker, pipeline_store, uploads, cache>>

\* search(**a) on instance i; embedOk is whether encode(query) returns
Search(i, a, embedOk) ==
    \E s \in {search(MemOf(i), a, embedOk, model_dim[i], disk_index, disk_meta)} :
        /\ embedOk \/ s.embed_calls > 0
        /\ faults' = faults + Fault(~embedOk)
        /\ faults' <= MaxFaults
        /\ index' = [index EXCEPT ![i] = s.mem.index]
        /\ metadata_list' = [metadata_list EXCEPT ![i] = s.mem.metadata_list]
        /\ last' = Last("search", i, None, s.raised, 0, ~index[i].present, s.results,
                        s.embed_calls, a, "none")
        /\ UNCHANGED <<disk_index, disk_meta, deleted>>
        /\ UNCHANGED <<model_dim, task, waiting, response, chunker, pipeline_store, uploads, cache>>

----------------------------------------------------------------------------
(* Spec: one service instance, with the faults of the embedding provider    *)
(* and of the file system                                                   *)

\* the calls of add_meeting_embeddings made
AddCalls ==
    { Call("m1", TextABC, 1, <<>>, <<>>, <<>>, <<>>, "p1"),
      Call("m2", <<>>, 0, <<>>, <<>>, <<>>, TextC, None),
      Call("m2", <<>>, 0, <<>>, <<>>, <<>>, <<>>, None) }

\* the arguments search is called with
DefaultArgs ==
    { [project_id |-> None, segment_types |-> NoFilter, meeting_ids |-> NoFilter,
       top_k |-> MaxTopK, min_score |-> Frac(0, 1), query |-> TextAB] }

Next ==
    \/ \E i \in Writers : Construct(i)
    \/ \E i \in Writers, call \in AddCalls, failAt \in 0..MaxRecords,
          outcome \in SaveOutcomes :
            AddMeetingEmbeddings(i, call, failAt, outcome)
    \/ \E i \in Writers, m \in Meetings, failAt \in 0..MaxRecords,
          outcome \in SaveOutcomes :
            DeleteMeetingVectors(i, m, failAt, outcome)
    \/ \E i \in Writers, a \in DefaultArgs, embedOk \in BOOLEAN :
            Search(i, a, embedOk)

Spec == Init /\ [][Next]_vars

----------------------------------------------------------------------------
(* SpecShared: the two service instances of the process on one directory:  *)
(* the one of upload.py is written to, both are searched and rebuilt; a     *)
(* save after an add can leave a truncated index file                       *)

NextShared ==
    \/ \E i \in Instances : Construct(i)
    \/ \E i \in Writers, call \in AddCalls,
          outcome \in {"ok", "index_write_partial"} :
            AddMeetingEmbeddings(i, call, 0, outcome)
    \/ \E i \in Writers, m \in Meetings :
            DeleteMeetingVectors(i, m, 0, "ok")
    \/ \E i \in Instances, a \in DefaultArgs :
            Search(i, a, TRUE)

SpecShared == Init /\ [][NextShared]_vars

----------------------------------------------------------------------------
(* SpecSearch: one instance filled without faults, then one search with     *)
(* any arguments                                                            *)

SearchAddCalls ==
    { Call("m1", TextAB, 1, <<>>, <<>>, <<>>, <<>>, "p1"),
      Call("m1", <<>>, 0, <<>>, <<>>, <<>>, TextAB, "p1"),
      Call("m2", <<>>, 0, <<>>, <<>>, <<>>, TextC, None),
      Call("m2", <<>>, 0, <<TextBC>>, <<>>, <<>>, <<>>, "p2"),
      Call("m2", TextABC, 0, <<>>, <<>>, <<>>, <<>>, None) }

Queries == {TextAB, TextC}
SegmentTypeFilters == {NoFilter, FilterOn(<<>>), FilterOn(<<"summary">>)}
MeetingIdFilters == {NoFilter, FilterOn(<<"m1">>)}
ProjectFilters == {None, "p1"}
MinScores == {Frac(0, 1), Frac(1, 2)}

SearchArgs ==
    [project_id : ProjectFilters, segment_types : SegmentTypeFilters, meeting_ids : MeetingIdFilters,
     top_k : 1..MaxTopK, min_score : MinScores,
     query : Queries]

NextSearch ==
    \/ /\ last.op # "search"
       /\ \E call \in SearchAddCalls : AddMeetingEmbeddings("search", call, 0, "ok")
    \/ /\ last.op # "search"
       /\ \E a \in SearchArgs : Search("search", a, TRUE)

SpecSearch == Init /\ [][NextSearch]_vars

----------------------------------------------------------------------------
(* SpecModel: one service instance whose process is restarted with another  *)
(* EMBEDDING_MODEL, without faults                                          *)

\* the output dimensions of the models EMBEDDING_MODEL can name
EmbeddingDims == {embedding_dim, embedding_dim + 1}

\* the process is started with EMBEDDING_MODEL naming a model of dimension d:
\* VectorStoreService(embedding_model_name=...) on the directory
Restart(i, d) ==
    \E m \in {_load_index(disk_index, disk_meta)} :
        /\ index' = [index EXCEPT ![i] = m.index]
        /\ metadata_list' = [metadata_list EXCEPT ![i] = m.metadata_list]
        /\ model_dim' = [model_dim EXCEPT ![i] = d]
        /\ last' = Last("construct", i, None, FALSE, 0, FALSE, <<>>, 0, NoArgs, "none")
        /\ deleted' = [deleted EXCEPT ![i] = {}]
        /\ UNCHANGED <<disk_index, disk_meta, faults>>
        /\ UNCHANGED <<task, waiting, response, chunker, pipeline_store, uploads, cache>>

NextModel ==
    \/ \E i \in Writers, d \in EmbeddingDims : Restart(i, d)
    \/ \E i \in Writers, call \in AddCalls :
            AddMeetingEmbeddings(i, call, 0, "ok")
    \/ \E i \in Writers, m \in Meetings :
            DeleteMeetingVectors(i, m, 0, "ok")
    \/ \E i \in Writers, a \in DefaultArgs :
            Search(i, a, TRUE)

SpecModel == Init /\ [][NextModel]_vars

----------------------------------------------------------------------------
(* SpecLoop: the event loop of the process.  process_meeting (a background  *)
(* task, async def) calls add_meeting_embeddings and search_meetings (async *)
(* def) calls search; both calls are synchronous and hold the loop's thread *)
(* from their first statement to their return.  add_meeting_embeddings is   *)
(* executed statement by statement; /search requests arrive at any moment.  *)

\* mutant of ThreadFree: the handlers run on threads of their own
ThreadFree_OwnThread(t) == TRUE

\* the loop's thread can start a handler: it is inside no call
ThreadFree(t) == t.op = "idle"

\* a /search request is accepted by the server; during is where the
\* add_meeting_embeddings call being executed was at that moment: "none" (no
\* call was being executed), "append" (a vector added, its record not yet),
\* "dump_metadata" (the index file written, the metadata file not yet) or
\* "busy" (any other statement)
Arrive ==
    /\ Len(waiting) < MaxWaiting
    /\ waiting' = Append(waiting,
                     [state |-> "queued",
                      during |-> IF task.pc \in {"none", "append", "dump_metadata"}
                                 THEN task.pc ELSE "busy"])
    /\ UNCHANGED <<index, metadata_list, disk_index, disk_meta, last, faults,
                   deleted, model_dim, task, response, chunker, pipeline_store, uploads, cache>>

\* process_meeting reaches vector_store.add_meeting_embeddings(**call)
StartAdd(i, call) ==
    \E recs \in {RecordsOf(call)} :
        /\ ThreadFree(task)
        /\ Len(metadata_list[i]) + Len(recs) <= MaxRecords
        /\ ~index[i].present => Len(disk_meta.records) + Len(recs) <= MaxRecords
        /\ task' = [k |-> 1, recs |-> recs, op |-> "add",
                    inst |-> i, meeting |-> call.meeting_id,
                    pc |-> IF recs = <<>> THEN "return" ELSE "encode"]
        /\ UNCHANGED <<index, metadata_list, disk_index, disk_meta, last, faults,
                       deleted, model_dim, waiting, response, chunker, pipeline_store, uploads, cache>>

\* _add_vector: embedding_model.encode and _ensure_index
AddEncode ==
    /\ task.op = "add" /\ task.pc = "encode"
    /\ \E m \in {_ensure_index(MemOf(task.inst), model_dim[task.inst],
                                disk_index, disk_meta)} :
        /\ index' = [index EXCEPT ![task.inst] = m.index]
        /\ metadata_list' = [metadata_list EXCEPT ![task.inst] = m.metadata_list]
    /\ task' = [task EXCEPT !.pc = "index_add"]
    /\ UNCHANGED <<disk_index, disk_meta, last, faults, deleted, model_dim,
                   waiting, response, chunker, pipeline_store, uploads, cache>>

\* _add_vector: self.index.add(embedding)
AddIndexAdd ==
    /\ task.op = "add" /\ task.pc = "index_add"
    /\ index[task.inst].d = model_dim[task.inst]
    /\ index' = [index EXCEPT ![task.inst].vecs =
                    Append(@, Embed(task.recs[task.k].text, model_dim[task.inst]))]
    /\ task' = [task EXCEPT !.pc = "append"]
    /\ UNCHANGED <<metadata_list, disk_index, disk_meta, last, faults, deleted,
                   model_dim, waiting, response, chunker, pipeline_store, uploads, cache>>

\* _add_vector: self.metadata_list.append(metadata); vectors_added += 1
AddAppend ==
    /\ task.op = "add" /\ task.pc = "append"
    /\ metadata_list' = [metadata_list EXCEPT ![task.inst] =
                            Append(@, task.recs[task.k])]
    /\ task' = [task EXCEPT !.k = @ + 1,
                            !.pc = IF task.k = Len(task.recs) THEN "write_index"
                                   ELSE "encode"]
    /\ UNCHANGED <<index, disk_index, disk_meta, last, faults, deleted,
                   model_dim, waiting, response, chunker, pipeline_store, uploads, cache>>

\* _save_index: its first test and faiss.write_index
SaveWriteIndex ==
    /\ task.op = "add" /\ task.pc = "write_index"
    /\ IF ~index[task.inst].present \/ Len(metadata_list[task.inst]) = 0
       THEN /\ task' = [task EXCEPT !.pc = "return"]
            /\ UNCHANGED disk_index
       ELSE /\ task' = [task EXCEPT !.pc = "dump_metadata"]
            /\ disk_index' = write_index(index[task.inst])
    /\ UNCHANGED <<index, metadata_list, disk_meta, last, faults, deleted,
                   model_dim, waiting, response, chunker, pipeline_store, uploads, cache>>

\* _save_index: json.dump of the records
SaveDumpMetadata ==
    /\ task.op = "add" /\ task.pc = "dump_metadata"
    /\ disk_meta' = dump_metadata(metadata_list[task.inst])
    /\ task' = [task EXCEPT !.pc = "return"]
    /\ UNCHANGED <<index, metadata_list, disk_index, last, faults, deleted,
                   model_dim, waiting, response, chunker, pipeline_store, uploads, cache>>

\* return vectors_added
AddReturn ==
    /\ task.op = "add" /\ task.pc = "return"
    /\ task' = NoTask
    /\ last' = Last("add", task.inst, task.meeting, FALSE, Len(task.recs), FALSE,
                    <<>>, 0, NoArgs, IF task.recs = <<>> THEN "none" ELSE "ok")
    /\ deleted' = [j \in Instances |-> deleted[j] \ {task.meeting}]
    /\ UNCHANGED <<index, metadata_list, disk_index, disk_meta, faults,
                   model_dim, waiting, response, chunker, pipeline_store, uploads, cache>>

\* the loop runs the oldest request waiting: search_meetings calls search(**a)
\* on the instance of search.py
RunSearch(a) ==
    /\ ThreadFree(task)
    /\ \E n \in 1..Len(waiting) :
        /\ waiting[n].state = "queued"
        /\ \A k \in 1..(n - 1) : waiting[k].state = "served"
        /\ waiting' = [waiting EXCEPT ![n].state = "served"]
    /\ \E s \in {search(MemOf("search"), a, TRUE, model_dim["search"],
                         disk_index, disk_meta)} :
        /\ index' = [index EXCEPT !["search"] = s.mem.index]
        /\ metadata_list' = [metadata_list EXCEPT !["search"] = s.mem.metadata_list]
        /\ last' = Last("search", "search", None, s.raised, 0,
                        ~index["search"].present, s.results,
                        s.embed_calls, a, "none")
    /\ UNCHANGED <<disk_index, disk_meta, faults, deleted, model_dim, task,
                   response, chunker, pipeline_store, uploads, cache>>

NextLoop ==
    \/ Arrive
    \/ \E call \in AddCalls : StartAdd("upload", call)
    \/ AddEncode
    \/ AddIndexAdd
    \/ AddAppend
    \/ SaveWriteIndex
    \/ SaveDumpMetadata
    \/ AddReturn
    \/ \E a \in DefaultArgs : RunSearch(a)

SpecLoop == Init /\ [][NextLoop]_vars

----------------------------------------------------------------------------
(* SpecRoute: records are added through the instance of upload.py without   *)
(* faults, then one POST /search is answered by the instance of search.py   *)

\* POST /search with this request; embedOk is whether encode(query) returns
SearchMeetings(request, embedOk) ==
    \E r \in {search_meetings(MemOf("search"), request, embedOk,
                              model_dim["search"], disk_index, disk_meta)} :
        /\ embedOk \/ (r.called /\ r.engine.embed_calls > 0)
        /\ faults' = faults + Fault(~embedOk)
        /\ faults' <= MaxFaults
        /\ index' = [index EXCEPT !["search"] = r.mem.index]
        /\ metadata_list' = [metadata_list EXCEPT !["search"] = r.mem.metadata_list]
        /\ last' = IF r.called
                   THEN Last("search", "search", None, r.engine.raised, 0,
                             ~index["search"].present,
                             r.engine.results, r.engine.embed_calls, r.args, "none")
                   ELSE last
        /\ response' = r.response
        /\ UNCHANGED <<disk_index, disk_meta, deleted, model_dim, task, waiting,
                       chunker, pipeline_store, uploads, cache>>

\* the calls of add_meeting_embeddings made before the request
RouteAddCalls ==
    { Call("m1", TextABC, 1, <<>>, <<>>, <<>>, <<>>, "p1"),
      Call("m2", <<>>, 0, <<>>, <<>>, <<>>, TextC, None) }

RouteQueries == {TextAB, <<" ", "c", " ">>, <<" ">>}

SearchRequests ==
    { SearchRequest(query, top_k, NoFilter, NoFilter, project_id, Frac(0, 1),
                    page, page_size) :
        query \in RouteQueries, top_k \in 1..MaxTopK,
        project_id \in ProjectFilters,
        page \in 1..MaxPage, page_size \in 1..MaxPageSize }

NextRoute ==
    \/ /\ response.status = 0
       /\ \E call \in RouteAddCalls : AddMeetingEmbeddings("upload", call, 0, "ok")
    \/ /\ response.status = 0
       /\ \E request \in SearchRequests, embedOk \in BOOLEAN :
             SearchMeetings(request, embedOk)

SpecRoute == Init /\ [][NextRoute]_vars

----------------------------------------------------------------------------
(* SpecChunk: _chunk_text applied to one text on an instance built with any *)
(* chunk_size and chunk_overlap                                             *)

\* the texts of at most n characters over a and b
RECURSIVE TextsUpTo(_)
TextsUpTo(n) ==
    IF n = 0 THEN {<<>>}
    ELSE LET shorter == TextsUpTo(n - 1)
         IN  shorter \cup {Append(t, c) : t \in shorter, c \in {"a", "b"}}

InitChunk ==
    /\ index = [i \in Instances |-> NoIndex]
    /\ metadata_list = [i \in Instances |-> <<>>]
    /\ disk_index = AbsentIndexFile
    /\ disk_meta = AbsentMetaFile
    /\ last = Last("init", "upload", None, FALSE, 0, FALSE, <<>>, 0, NoArgs, "none")
    /\ faults = 0
    /\ deleted = [i \in Instances |-> {}]
    /\ model_dim = [i \in Instances |-> embedding_dim]
    /\ task = NoTask
    /\ waiting = <<>>
    /\ response = NoResponse
    /\ \E text \in TextsUpTo(MaxTextLen), size \in 1..MaxChunkSize,
          overlap \in 0..MaxChunkSize :
            chunker = [NoChunking EXCEPT !.text = text, !.size = size,
                                         !.overlap = overlap]
    /\ pipeline_store = NoProcessing
    /\ uploads = [u \in UploadIds |-> NoUpload]
    /\ cache = NoCache

\* self._chunk_text(text) returns
ChunkText ==
    /\ chunker.state = "ready"
    /\ ~LoopsForever(chunker.text, chunker.size, chunker.overlap)
    /\ chunker' = [chunker EXCEPT
                      !.chunks = _chunk_text(chunker.text, chunker.size,
                                             chunker.overlap),
                      !.state = "returned"]
    /\ UNCHANGED <<index, metadata_list, disk_index, disk_meta, last, faults,
                   deleted, model_dim, task, waiting, response,
                   pipeline_store, uploads, cache>>

\* self._chunk_text(text) does not return
ChunkTextLoops ==
    /\ chunker.state = "ready"
    /\ LoopsForever(chunker.text, chunker.size, chunker.overlap)
    /\ chunker' = [chunker EXCEPT !.state = "looping"]
    /\ UNCHANGED <<index, metadata_list, disk_index, disk_meta, last, faults,
                   deleted, model_dim, task, waiting, response,
                   pipeline_store, uploads, cache>>

NextChunk ==
    \/ ChunkText
    \/ ChunkTextLoops

SpecChunk == InitChunk /\ [][NextChunk]_vars

----------------------------------------------------------------------------
(* PipelineStore and POST /upload                                          *)

\* is_processing()
is_processing(store) == store._is_processing

\* mutant of acquire_processing: the flag is not tested
acquire_processing_NoTest(store) ==
    [store |-> [store EXCEPT !._is_processing = TRUE], acquired |-> TRUE]

\* acquire_processing(): the store it leaves and the bool it returns
acquire_processing(store) ==
    IF store._is_processing
    THEN [store |-> store, acquired |-> FALSE]
    ELSE [store |-> [store EXCEPT !._is_processing = TRUE], acquired |-> TRUE]

\* release_processing()
release_processing(store) == [store EXCEPT !._is_processing = FALSE]

\* the positions of a request that has acquired the processing lock and has
\* not reached the finally of process_meeting
InPipeline == {"acquired", "scheduled", "processing"}

\* what the other handlers leave alone
UploadFrame ==
    UNCHANGED <<index, metadata_list, disk_index, disk_meta, last, faults,
                deleted, model_dim, task, waiting, response, chunker, cache>>

\* upload_meeting_file up to its first await: the filename is there and
\* is_processing() is tested; with_db is whether a database record will be
\* made for the meeting (meeting_uuid and db)
UploadCheck(u, with_db) ==
    /\ uploads[u].pc = "none"
    /\ uploads' = [uploads EXCEPT ![u] =
                      [pc |-> IF is_processing(pipeline_store)
                              THEN "rejected" ELSE "checked",
                       with_db |-> with_db]]
    /\ UNCHANGED pipeline_store
    /\ UploadFrame

\* the request ends before acquire_processing: project, file type, read,
\* write or validation failed (400 or 500)
UploadFailsBeforeAcquire(u) ==
    /\ uploads[u].pc = "checked"
    /\ uploads' = [uploads EXCEPT ![u].pc = "failed"]
    /\ UNCHANGED pipeline_store
    /\ UploadFrame

\* the file is saved and validated; acquire_processing() is called and, when
\* it returns False, the request ends with 409
UploadAcquire(u) ==
    /\ uploads[u].pc = "checked"
    /\ \E r \in {acquire_processing(pipeline_store)} :
          /\ pipeline_store' = r.store
          /\ uploads' = [uploads EXCEPT ![u].pc =
                            IF r.acquired THEN "acquired" ELSE "conflict"]
    /\ UploadFrame

\* the meeting record is updated (errors logged), the status set and the
\* background task added; the request returns
UploadSchedule(u) ==
    /\ uploads[u].pc = "acquired"
    /\ uploads' = [uploads EXCEPT ![u].pc = "scheduled"]
    /\ UNCHANGED pipeline_store
    /\ UploadFrame

\* an exception after acquire_processing and before add_task reaches the
\* handler `except Exception` of upload_meeting_file: 500, no task added
UploadFailsAfterAcquire(u) ==
    /\ uploads[u].pc = "acquired"
    /\ uploads' = [uploads EXCEPT ![u].pc = "error_500"]
    /\ UNCHANGED pipeline_store
    /\ UploadFrame

\* the background task starts: process_meeting, inside the database session
\* of process_meeting_with_db when the request had a database record
StartProcessing(u) ==
    /\ uploads[u].pc = "scheduled"
    /\ uploads' = [uploads EXCEPT ![u].pc = "processing"]
    /\ UNCHANGED pipeline_store
    /\ UploadFrame

\* process_meeting_with_db cannot open its database session: the exception
\* leaves the task before process_meeting is called
OpenSessionFails(u) ==
    /\ uploads[u].pc = "scheduled"
    /\ uploads[u].with_db
    /\ uploads' = [uploads EXCEPT ![u].pc = "task_failed"]
    /\ UNCHANGED pipeline_store
    /\ UploadFrame

\* process_meeting ends: completed, a pipeline error or timeout (return), or
\* another exception (except Exception); its finally releases the lock
FinishProcessing(u, outcome) ==
    /\ uploads[u].pc = "processing"
    /\ uploads' = [uploads EXCEPT ![u].pc = outcome]
    /\ pipeline_store' = release_processing(pipeline_store)
    /\ UploadFrame

ProcessingOutcomes == {"completed", "error", "timeout"}

\* the positions of a request that has ended, its background task included
Ended ==
    {"rejected", "failed", "conflict", "error_500", "task_failed"}
        \cup ProcessingOutcomes

\* the request is over; the next POST /upload takes its place
UploadEnds(u) ==
    /\ uploads[u].pc \in Ended
    /\ uploads' = [uploads EXCEPT ![u] = NoUpload]
    /\ UNCHANGED pipeline_store
    /\ UploadFrame

\* the steps of the request u that the event loop runs once they are ready
Progress(u) ==
    \/ UploadAcquire(u)
    \/ UploadSchedule(u)
    \/ UploadFailsAfterAcquire(u)
    \/ StartProcessing(u)
    \/ OpenSessionFails(u)
    \/ \E outcome \in ProcessingOutcomes : FinishProcessing(u, outcome)

NextUpload ==
    \/ \E u \in UploadIds, with_db \in BOOLEAN : UploadCheck(u, with_db)
    \/ \E u \in UploadIds : UploadFailsBeforeAcquire(u)
    \/ \E u \in UploadIds : UploadAcquire(u)
    \/ \E u \in UploadIds : UploadSchedule(u)
    \/ \E u \in UploadIds : UploadFailsAfterAcquire(u)
    \/ \E u \in UploadIds : StartProcessing(u)
    \/ \E u \in UploadIds : OpenSessionFails(u)
    \/ \E u \in UploadIds, outcome \in ProcessingOutcomes :
          FinishProcessing(u, outcome)
    \/ \E u \in UploadIds : UploadEnds(u)

\* requests keep arriving; every request and every background task that can
\* take a step takes one
SpecUpload ==
    Init /\ [][NextUpload]_vars /\ \A u \in UploadIds : WF_vars(Progress(u))

----------------------------------------------------------------------------
(* SimpleCache                                                              *)

\* the position of key in the dict, 0 when it is not a key
PositionOf(entries, key) ==
    IF \E k \in 1..Len(entries) : entries[k].key = key
    THEN CHOOSE k \in 1..Len(entries) : entries[k].key = key
    ELSE 0

\* self._cache[key] = value: a key of the dict keeps its place, a new key
\* goes last
Assign(entries, key, value) ==
    IF PositionOf(entries, key) > 0
    THEN [entries EXCEPT ![PositionOf(entries, key)].value = value]
    ELSE Append(entries, [key |-> key, value |-> value])

\* get(key): the cache it leaves, with the value returned in `returned`
get(c, key) ==
    IF PositionOf(c._cache, key) > 0
    THEN [c EXCEPT !.returned = c._cache[PositionOf(c._cache, key)].value]
    ELSE IF c.cache_dir /\ c.files[key] # None
    THEN [c EXCEPT !._cache = Assign(c._cache, key, c.files[key]),
                   !.returned = c.files[key]]
    ELSE [c EXCEPT !.returned = None]

\* set(key, value): the cache it leaves
set(c, key, value) ==
    LET full == Len(c._cache) >= c.max_size /\ PositionOf(c._cache, key) = 0
        kept == IF full THEN Tail(c._cache) ELSE c._cache
    IN  [c EXCEPT !._cache = Assign(kept, key, value),
                  !.files = IF c.cache_dir THEN [c.files EXCEPT ![key] = value]
                            ELSE c.files]

\* what the other handlers leave alone
CacheFrame ==
    UNCHANGED <<index, metadata_list, disk_index, disk_meta, last, faults,
                deleted, model_dim, task, waiting, response, chunker,
                pipeline_store, uploads>>

CacheGet(key) ==
    /\ cache' = get(cache, key)
    /\ CacheFrame

CacheSet(key, value) ==
    /\ cache' = set(cache, key, value)
    /\ CacheFrame

\* SimpleCache(max_size, cache_dir) on an empty directory, or without one
InitCache ==
    /\ index = [i \in Instances |-> NoIndex]
    /\ metadata_list = [i \in Instances |-> <<>>]
    /\ disk_index = AbsentIndexFile
    /\ disk_meta = AbsentMetaFile
    /\ last = Last("init", "upload", None, FALSE, 0, FALSE, <<>>, 0, NoArgs, "none")
    /\ faults = 0
    /\ deleted = [i \in Instances |-> {}]
    /\ model_dim = [i \in Instances |-> embedding_dim]
    /\ task = NoTask
    /\ waiting = <<>>
    /\ response = NoResponse
    /\ chunker = NoChunking
    /\ pipeline_store = NoProcessing
    /\ uploads = [u \in UploadIds |-> NoUpload]
    /\ \E max_size \in 1..MaxCacheSize, cache_dir \in BOOLEAN :
          cache = [NoCache EXCEPT !.max_size = max_size, !.cache_dir = cache_dir]

NextCache ==
    \/ \E key \in CacheKeys : CacheGet(key)
    \/ \E key \in CacheKeys, value \in CacheValues : CacheSet(key, value)

SpecCache == InitCache /\ [][NextCache]_vars

----------------------------------------------------------------------------
(* Properties *)

\* positions of the records of meeting m in a list
OfMeeting(mds, m) == {k \in 1..Len(mds) : mds[k].meeting_id = m}

\* C1: in every reachable state the number of vectors in the index (0 when
\* the index is None) equals len(metadata_list).
C1_IndexMatchesMetadata ==
    \A i \in Instances : ntotal(index[i]) = Len(metadata_list[i])

\* C2: once delete_meeting_vectors(M) has returned True, a later search, with
\* no add_meeting_embeddings for M in between, returns no result of meeting M.
C2_DeletedMeetingNotFound ==
    (last.op = "search" /\ ~last.raised) =>
        \A k \in 1..Len(last.results) :
            last.results[k].meeting_id \notin deleted[last.inst]

\* C3: delete_meeting_vectors(M), returning or raising, leaves metadata_list
\* as the previous list without the records of meeting M, the other records
\* unchanged and in their order, and total_vectors falls by the number of
\* records of M.
C3_DeleteRemovesExactly ==
    [][last'.op = "delete" =>
        LET i == last'.inst
            m == last'.meeting
            Other(md) == md.meeting_id # m
        IN  /\ metadata_list'[i] = SelectSeq(metadata_list[i], Other)
            /\ total_vectors(Mem(index'[i], metadata_list'[i]))
                 = total_vectors(Mem(index[i], metadata_list[i]))
                   - Cardinality(OfMeeting(metadata_list[i], m))]_vars

\* C3 witness: a delete returned True and left records of another meeting
C3_Witness ==
    /\ last.op = "delete" /\ last.flag
    /\ Len(metadata_list[last.inst]) > 0
    /\ OfMeeting(metadata_list[last.inst], last.meeting) = {}

\* the record a result was built from
RecordOf(r) == metadata_list[last.inst][r.record]

\* C4 as amended: every result of search passes every filter that was given
\* and is not empty: segment_types (a non-empty list), meeting_ids (a
\* non-empty list), project_id (not None; the record's project_id equals it).
C4_ResultsPassFilters ==
    (last.op = "search" /\ ~last.raised) =>
        \A k \in 1..Len(last.results) :
            LET r == last.results[k]
                a == last.args
            IN  /\ (a.segment_types.given /\ a.segment_types.list # <<>>)
                      => r.segment_type \in Elems(a.segment_types.list)
                /\ (a.meeting_ids.given /\ a.meeting_ids.list # <<>>)
                      => r.meeting_id \in Elems(a.meeting_ids.list)
                /\ a.project_id # None
                      => RecordOf(r).project_id = a.project_id

\* C4 as claimed: every result passes every filter that was supplied, an
\* empty list included.
C4_ResultsPassSuppliedFilters ==
    (last.op = "search" /\ ~last.raised) =>
        \A k \in 1..Len(last.results) :
            LET r == last.results[k]
                a == last.args
            IN  /\ a.segment_types.given
                      => r.segment_type \in Elems(a.segment_types.list)
                /\ a.meeting_ids.given
                      => r.meeting_id \in Elems(a.meeting_ids.list)
                /\ a.project_id # None
                      => RecordOf(r).project_id = a.project_id

\* C4 witness: a search with the three filters set returned a result and
\* left out a record
C4_Witness ==
    /\ last.op = "search"
    /\ last.args.segment_types.list # <<>>
    /\ last.args.meeting_ids.list # <<>>
    /\ last.args.project_id # None
    /\ Len(last.results) > 0
    /\ Len(last.results) < Len(metadata_list[last.inst])

\* C5: the list search returns has at most top_k entries and is ordered by
\* non-increasing similarity_score.
C5_AtMostTopKSorted ==
    (last.op = "search" /\ ~last.raised) =>
        /\ Len(last.results) <= last.args.top_k
        /\ \A k \in 1..(Len(last.results) - 1) :
              ~FracLess(last.results[k].similarity_score,
                        last.results[k + 1].similarity_score)

\* C5 witness: a search stopped at top_k results of falling score with more
\* records than top_k in the store
C5_Witness ==
    /\ last.op = "search"
    /\ Len(last.results) = last.args.top_k
    /\ Len(last.results) >= 2
    /\ Len(metadata_list[last.inst]) > last.args.top_k
    /\ FracLess(last.results[2].similarity_score, last.results[1].similarity_score)

\* C6 as amended: a search that, after the reload it attempts when the index
\* is None, has no index or no records returns an empty list, without raising
\* and without a call of the embedding provider.  (search leaves the memory as
\* the reload left it.)
C6_NothingToSearch ==
    (/\ last.op = "search"
     /\ (~index[last.inst].present \/ Len(metadata_list[last.inst]) = 0))
        => /\ last.results = <<>>
           /\ ~last.raised
           /\ last.embed_calls = 0

\* C6 as claimed: a search started on a store with no index or no records
\* returns an empty list, without raising and without a call of the embedding
\* provider.
C6_UninitializedReturnsEmpty ==
    [][(/\ last'.op = "search"
        /\ (~index[last'.inst].present \/ Len(metadata_list[last'.inst]) = 0))
          => /\ last'.results = <<>>
             /\ ~last'.raised
             /\ last'.embed_calls = 0]_vars

\* C6 witness: a search found the index None, tried the files, could not read
\* them and returned
C6_Witness ==
    /\ last.op = "search"
    /\ ~index[last.inst].present
    /\ disk_index.state # "absent" /\ disk_meta.state # "absent"

\* C7: add_meeting_embeddings returning n leaves total_vectors n higher than
\* before, the n new records last in metadata_list, all of the given meeting.
C7_AddReturnsCountAdded ==
    [][(last'.op = "add" /\ ~last'.raised) =>
        LET i == last'.inst
            n == last'.count
            after == metadata_list'[i]
        IN  /\ total_vectors(Mem(index'[i], after))
                 = total_vectors(Mem(index[i], metadata_list[i])) + n
            /\ Len(after) >= n
            /\ \A k \in (Len(after) - n + 1)..Len(after) :
                  after[k].meeting_id = last'.meeting]_vars

\* C8: after a handler's _save_index returned without error, a new
\* VectorStoreService on the directory holds the index and the metadata_list
\* the saving instance held, element by element.
C8_SaveLoadRoundTrip ==
    [][(/\ last.op \in {"add", "delete"}
        /\ last.save \in {"ok", "skipped"}
        /\ last'.op = "construct")
          => /\ index'[last'.inst] = index[last.inst]
             /\ metadata_list'[last'.inst] = metadata_list[last.inst]]_vars

\* C9: a save that fails at the index write or at the metadata write leaves
\* both files as they were.
C9_FailedSaveKeepsFiles ==
    [][last'.save \in (SaveOutcomes \ {"ok"})
          => (disk_index' = disk_index /\ disk_meta' = disk_meta)]_vars

\* C10: a persisted pair whose record count differs from its vector count is
\* not put into service by a load (the constructor, the reload of search).
C10_MismatchedPairNotLoaded ==
    [][(/\ \/ last'.op = "construct"
           \/ (last'.op = "search" /\ ~index[last'.inst].present)
        /\ disk_index.state = "ok" /\ disk_meta.state = "ok"
        /\ Len(disk_index.vecs) # Len(disk_meta.records))
          => /\ ~index'[last'.inst].present
             /\ metadata_list'[last'.inst] = <<>>]_vars

\* C11: while an instance holds records the dimension of its index does not
\* change, and an add_meeting_embeddings whose embeddings have another
\* dimension than the index raises and leaves the index, metadata_list and
\* the two files as they were.
C11_DimensionFixed ==
    [][\A i \in Instances :
        (/\ index[i].present /\ Len(metadata_list[i]) > 0
         /\ last'.inst = i /\ last'.op \in {"add", "delete", "search"})
          => /\ (index'[i].present /\ Len(metadata_list'[i]) > 0)
                    => index'[i].d = index[i].d
             /\ (last'.op = "add" /\ model_dim[i] # index[i].d)
                    => /\ last'.raised \/ last'.count = 0
                       /\ index'[i] = index[i]
                       /\ metadata_list'[i] = metadata_list[i]
                       /\ disk_index' = disk_index /\ disk_meta' = disk_meta]_vars

\* C12: an add_meeting_embeddings or delete_meeting_vectors that ends with
\* the exception of a failed embedding call leaves the instance's index and
\* metadata_list and the two files exactly as they were when it started.
C12_EmbedFailureLeavesState ==
    [][(last'.op \in {"add", "delete"} /\ last'.raised) =>
        /\ index'[last'.inst] = index[last'.inst]
        /\ metadata_list'[last'.inst] = metadata_list[last'.inst]
        /\ disk_index' = disk_index
        /\ disk_meta' = disk_meta]_vars

C14_DeleteLastPersisted ==
    [][(/\ last.op = "delete" /\ last.flag
        /\ Len(metadata_list[last.inst]) = 0
        /\ last'.op \in {"construct", "search"}
        /\ last'.inst = last.inst)
          => /\ ~index'[last'.inst].present
             /\ metadata_list'[last'.inst] = <<>>]_vars

\* C15: delete_meeting_vectors never calls the embedding provider and never
\* ends with an exception, whether the provider is available or not.
C15_DeleteWithoutEmbedding ==
    last.op = "delete" => (last.embed_calls = 0 /\ ~last.raised)

\* C16: delete_meeting_vectors(M) returns False exactly when the instance has
\* no index or no record of meeting M, and then leaves index, metadata_list
\* and the files unchanged; in every other case it returns True.
C16_DeleteReturnValue ==
    [][last'.op = "delete" =>
        LET i == last'.inst
            nothing == \/ ~index[i].present
                       \/ OfMeeting(metadata_list[i], last'.meeting) = {}
        IN  /\ ~last'.raised
            /\ last'.flag = ~nothing
            /\ nothing => /\ index'[i] = index[i]
                          /\ metadata_list'[i] = metadata_list[i]
                          /\ disk_index' = disk_index
                          /\ disk_meta' = disk_meta]_vars

\* the candidates the last search fetched: the k nearest vectors of the
\* instance's index to the embedded query, k = min(2 * top_k, records)
CandidatesOfLast ==
    index_search(index[last.inst],
                 Embed(last.args.query, model_dim[last.inst]),
                 Min(2 * last.args.top_k, Len(metadata_list[last.inst])))

\* C17: every result of search has the distance of a candidate fetched,
\* similarity_score = 1 - distance / max_distance with max_distance the
\* largest distance among the candidates fetched (similarity_score = 1 when
\* max_distance = 0), and similarity_score >= min_score.
C17_SimilarityFormula ==
    (last.op = "search" /\ ~last.raised /\ last.results # <<>>) =>
        LET cands == CandidatesOfLast
            max_distance == MaxOf({cands[c][2] : c \in 1..Len(cands)})
        IN  \A k \in 1..Len(last.results) :
                LET r == last.results[k]
                    score == r.similarity_score
                IN  /\ \E c \in 1..Len(cands) : cands[c][2] = r.distance
                    /\ max_distance > 0 =>
                          score.num * max_distance
                            = (max_distance - r.distance) * score.den
                    /\ max_distance = 0 => score.num = score.den
                    /\ ~FracLess(score, last.args.min_score)

\* C17 witness: a search without filters and with min_score > 0 returned a
\* result whose score lies strictly between 0 and 1 and left out a candidate
\* for its score
C17_Witness ==
    /\ last.op = "search" /\ ~last.raised
    /\ ~last.args.segment_types.given /\ ~last.args.meeting_ids.given
    /\ last.args.project_id = None
    /\ last.args.min_score.num > 0
    /\ Len(last.results) < Min(last.args.top_k, Len(metadata_list[last.inst]))
    /\ \E k \in 1..Len(last.results) :
          /\ 0 < last.results[k].similarity_score.num
          /\ last.results[k].similarity_score.num < last.results[k].similarity_score.den

\* the response of search_meetings to the last request asked for page p, on
\* the store as it is now
PageOfLast(p) ==
    search_meetings(MemOf("search"), [response.request EXCEPT !.page = p], TRUE,
                    model_dim["search"], disk_index, disk_meta).response

\* the results of pages first..last_page, one after the other
RECURSIVE ConcatPages(_, _, _)
ConcatPages(pages, first, last_page) ==
    IF first > last_page THEN <<>>
    ELSE pages[first].results \o ConcatPages(pages, first + 1, last_page)

\* C18: with the store and the query fixed, the pages 1..total_pages of
\* /search, one after the other, are the ranked list of the one engine
\* search of the request; page p is its slice [(p-1)*page_size : p*page_size],
\* total_results is its length and total_pages = ceil(total_results / page_size).
C18_PagesCoverRankedList ==
    response.status = 200 =>
        LET full == last.results
            size == response.page_size
            Lower(p) == IF (p - 1) * size < Len(full) THEN (p - 1) * size
                        ELSE Len(full)
            Upper(p) == IF p * size < Len(full) THEN p * size ELSE Len(full)
            asked == 1..(IF response.total_pages > MaxPage
                         THEN response.total_pages ELSE MaxPage)
            pages == [p \in asked |-> PageOfLast(p)]
        IN  /\ response = pages[response.page]
            /\ response.total_results = Len(full)
            /\ (response.total_pages - 1) * size < Len(full) \/ Len(full) = 0
            /\ response.total_pages * size >= Len(full)
            /\ response.total_pages >= 0
            /\ Len(full) = 0 => response.total_pages = 0
            /\ \A p \in asked :
                  /\ pages[p].total_results = response.total_results
                  /\ pages[p].total_pages = response.total_pages
                  /\ pages[p].results
                       = [k \in 1..(Upper(p) - Lower(p)) |-> full[Lower(p) + k]]
            /\ ConcatPages(pages, 1, response.total_pages) = full

\* C18 witness: the second of two pages was answered, and it is not empty
C18_Witness ==
    /\ response.status = 200
    /\ response.total_pages = 2 /\ response.page = 2
    /\ response.results # <<>>
    /\ response.total_results > response.page_size

\* C19: for a text of at most chunk_size characters, the empty text
\* included, _chunk_text returns one chunk, the text itself.
C19_ShortTextOneChunk ==
    (chunker.state # "ready" /\ Len(chunker.text) <= chunker.size)
        => (chunker.state = "returned" /\ chunker.chunks = <<chunker.text>>)

\* C19 witness: _chunk_text returned for the empty text
C19_Witness ==
    /\ chunker.state = "returned"
    /\ chunker.text = <<>>
    /\ chunker.overlap >= chunker.size

\* the first chunk followed by every later chunk without its first overlap
\* characters
RECURSIVE Reassemble(_, _)
Reassemble(chunks, overlap) ==
    IF chunks = <<>> THEN <<>>
    ELSE IF Len(chunks) = 1 THEN chunks[1]
    ELSE Reassemble(SubSeq(chunks, 1, Len(chunks) - 1), overlap)
         \o Slice(chunks[Len(chunks)], overlap, Len(chunks[Len(chunks)]))

\* C20: with 0 <= chunk_overlap < chunk_size, the first chunk followed by
\* every later chunk without its first chunk_overlap characters is the text.
C20_ChunksReassemble ==
    (chunker.state # "ready" /\ chunker.overlap < chunker.size)
        => /\ chunker.state = "returned"
           /\ Reassemble(chunker.chunks, chunker.overlap) = chunker.text

\* C20 witness: _chunk_text returned three chunks or more that overlap
C20_Witness ==
    /\ chunker.state = "returned"
    /\ chunker.overlap >= 1
    /\ chunker.overlap < chunker.size
    /\ Len(chunker.chunks) >= 3

\* C21: a configuration with chunk_overlap >= chunk_size is rejected, and
\* _chunk_text never runs into a loop that does not terminate: once
\* _chunk_text was called it is not looping, and under such a configuration
\* the call ended in the rejection.
C21_OverlapRejected ==
    /\ chunker.state # "looping"
    /\ (chunker.state # "ready" /\ chunker.overlap >= chunker.size)
           => chunker.state = "rejected"

\* C26: for chunk_overlap < chunk_size and a text longer than chunk_size,
\* _chunk_text returns; chunk j (0-based) is
\* text[j*(chunk_size - chunk_overlap) : j*(chunk_size - chunk_overlap) + chunk_size],
\* every chunk but the last has chunk_size characters, and the last chunk is
\* the first whose window end reaches len(text).
C26_SlidingWindow ==
    (/\ chunker.state # "ready"
     /\ chunker.overlap < chunker.size
     /\ Len(chunker.text) > chunker.size)
        => /\ chunker.state = "returned"
           /\ chunker.chunks # <<>>
           /\ \A n \in 1..Len(chunker.chunks) :
                LET j == n - 1
                    start == j * (chunker.size - chunker.overlap)
                    end == start + chunker.size
                IN  /\ chunker.chunks[n] = Slice(chunker.text, start, end)
                    /\ n < Len(chunker.chunks)
                           => /\ Len(chunker.chunks[n]) = chunker.size
                              /\ end < Len(chunker.text)
                    /\ n = Len(chunker.chunks) => end >= Len(chunker.text)

\* C26 witness: _chunk_text returned overlapping windows, the last one
\* shorter than chunk_size
C26_Witness ==
    /\ chunker.state = "returned"
    /\ chunker.overlap >= 1
    /\ chunker.overlap < chunker.size
    /\ Len(chunker.chunks) >= 2
    /\ Len(chunker.chunks[Len(chunker.chunks)]) < chunker.size

\* C22: a /search request that carries project_id = P is answered only with
\* results built from records whose project_id is P.
C22_ProjectScopedSearch ==
    (response.status = 200 /\ response.request.project_id # None)
        => \A k \in 1..Len(response.results) :
              metadata_list["search"][response.results[k].record].project_id
                  = response.request.project_id

\* the positions, among the first kp entries of the ranking `ranked` of the
\* records mds, of the candidates that pass the filters given in a and whose
\* score against max_distance is not below a.min_score
SurvivorsOf(mds, ranked, kp, a, max_distance) ==
    { p \in 1..kp :
        LET md == mds[ranked[p][1] + 1]
        IN  /\ (a.segment_types.given /\ a.segment_types.list # <<>>)
                  => md.segment_type \in Elems(a.segment_types.list)
            /\ (a.meeting_ids.given /\ a.meeting_ids.list # <<>>)
                  => md.meeting_id \in Elems(a.meeting_ids.list)
            /\ a.project_id # None => md.project_id = a.project_id
            /\ ~FracLess(similarity(ranked[p][2], max_distance), a.min_score) }

\* C25: search looks at the k' = min(2 * top_k, total_records) nearest
\* records only and returns, nearest first, the first top_k of them that pass
\* the filters and min_score; a record that is not among the k' nearest is
\* not returned, also when fewer than top_k of the k' pass.
C25_FirstTopKOfNearest ==
    (/\ last.op = "search" /\ ~last.raised
     /\ index[last.inst].present
     /\ Len(metadata_list[last.inst]) > 0) =>
        LET mds == metadata_list[last.inst]
            ranked == NearestFirst(index[last.inst],
                                   Embed(last.args.query, model_dim[last.inst]),
                                   1..Len(mds))
            kp == Min(2 * last.args.top_k, Len(mds))
            max_distance == MaxOf({ranked[c][2] : c \in 1..kp})
            passing == SurvivorsOf(mds, ranked, kp, last.args, max_distance)
        IN  /\ Len(last.results) = Min(last.args.top_k, Cardinality(passing))
            /\ \A n \in 1..Len(last.results) :
                  \E p \in passing :
                      /\ Cardinality({q \in passing : q < p}) = n - 1
                      /\ last.results[n].record = ranked[p][1] + 1
                      /\ last.results[n].distance = ranked[p][2]

\* C28: the top_k that /search passes to the engine is at least
\* page * page_size, so that the slice [(page-1)*page_size : page*page_size]
\* lies within the number of results asked of the engine.
C28_EngineTopKCoversPage ==
    (response.status = 200 /\ last.op = "search") =>
        last.args.top_k >= response.request.page * response.request.page_size

\* C30: search writes neither file of the directory and leaves the index and
\* metadata_list of every instance as they were, except that an instance
\* searched while its index is None gets the index and metadata_list that
\* _load_index reads from the directory.
C30_SearchReadOnly ==
    [][last'.op = "search" =>
          /\ disk_index' = disk_index
          /\ disk_meta' = disk_meta
          /\ \A i \in Instances :
                IF i = last'.inst /\ ~index[i].present
                THEN /\ last'.flag
                     /\ Mem(index'[i], metadata_list'[i])
                          = _load_index(disk_index, disk_meta)
                ELSE /\ index'[i] = index[i]
                     /\ metadata_list'[i] = metadata_list[i]]_vars

\* C30 witness: a search that found the index None took records from the
\* directory and returned some of them
C30_Witness ==
    /\ last.op = "search" /\ last.flag
    /\ index[last.inst].present
    /\ metadata_list[last.inst] = disk_meta.records
    /\ last.results # <<>>

\* C27: the routes share one vector store: a search by the /search route,
\* made after add_meeting_embeddings of the upload pipeline has returned and
\* saved, is evaluated against a store that holds every record the upload
\* pipeline's store holds.
C27_SearchSeesUploads ==
    (/\ last.op = "search" /\ last.inst = "search"
     /\ disk_index.state = "ok" /\ disk_meta.state = "ok"
     /\ disk_meta.records = metadata_list["upload"]) =>
        \A k \in 1..Len(metadata_list["upload"]) :
            \E j \in 1..Len(metadata_list["search"]) :
                metadata_list["search"][j] = metadata_list["upload"][k]

\* C23: at most one request is in the processing pipeline: while a request
\* that acquired the processing lock has not released it, acquire_processing
\* returns False to every other request, so of two uploads that both passed
\* the is_processing() test only one starts process_meeting.
C23_OneInPipeline ==
    /\ Cardinality({u \in UploadIds : uploads[u].pc \in InPipeline}) <= 1
    /\ (\E u \in UploadIds : uploads[u].pc \in InPipeline)
          => pipeline_store._is_processing

\* C23 witness: two uploads passed the is_processing() test together; one is
\* in process_meeting and the other was refused by acquire_processing
C23_Witness ==
    \E u, v \in UploadIds :
        /\ uploads[u].pc = "processing"
        /\ uploads[v].pc = "conflict"

\* C29: the processing lock does not leak: whenever is_processing() is True
\* it is False again later, however the request and its background task end.
C29_LockReleased ==
    pipeline_store._is_processing ~> ~pipeline_store._is_processing

\* C24: after any sequence of set and get calls a SimpleCache holds at most
\* max_size entries in memory.
C24_CacheBounded ==
    Len(cache._cache) <= cache.max_size

====
